---------------------------- MODULE Spec2Model ----------------------------
(***************************************************************************)
(* Model of the optimistic client controller of the task list page         *)
(* (frontend/src/pages/exercises/tasks/ExerciseTaskList.tsx).              *)
(*                                                                         *)
(* The component is a single-threaded React function component.  Every     *)
(* event handler runs to its first await (or to its end) as one atomic     *)
(* step; the continuation after an await runs as one atomic step when the  *)
(* request settles.  Between two steps React has re-rendered, so a handler *)
(* started by a user event closes over the state of the step before it.    *)
(***************************************************************************)
EXTENDS Integers, Sequences, FiniteSets, Bags, TLC

(***************************************************************************)
(* Bounds of the model.                                                    *)
(***************************************************************************)
MaxLoad == 1          \* longest task list the initial GET returns
MaxTime == 2          \* createdAt values are 1..MaxTime
MaxPosts == 2         \* POST requests issued in one behaviour
MaxDeletes == 2       \* DELETE requests issued in one behaviour
MaxUpdates == 1       \* PUT requests issued in one behaviour
MaxInitial == 2       \* tasks of the initial list where its order matters
MaxNavigations == 3   \* changes of the route of the detail page
MaxRoute == 2         \* task ids the route of the detail page can name
MaxSvcTasks == 2      \* tasks the service creates in one behaviour
MaxClock == 3         \* writes the store timestamps in one behaviour

Null == "null"
NoTask == [id |-> 0, status |-> "NONE", createdAt |-> 0]

Statuses == {"UPCOMING", "IN_PROGRESS", "COMPLETED"}
Priorities == {"LOW", "MEDIUM", "HIGH"}
Times == 1..MaxTime
Ids == 1..(MaxLoad + MaxPosts)

\* ExampleTask, reduced to the fields a handler of the list page reads:
\* id (filter, deleting set), status (boards) and createdAt (rollback sort).
Task == [id : Ids, status : Statuses, createdAt : Times]

(***************************************************************************)
(* Strings typed into the name field: sequences over a blank and a letter. *)
(***************************************************************************)
MaxNameLen == 1
Chars == {" ", "a"}
TypedNames == UNION {[1..n -> Chars] : n \in 0..MaxNameLen}

RECURSIVE TrimStart(_)
TrimStart(s) == IF s # <<>> /\ Head(s) = " " THEN TrimStart(Tail(s)) ELSE s

RECURSIVE TrimEnd(_)
TrimEnd(s) ==
    IF s # <<>> /\ s[Len(s)] = " " THEN TrimEnd(SubSeq(s, 1, Len(s) - 1)) ELSE s

\* String.prototype.trim
Trim(s) == TrimEnd(TrimStart(s))

(***************************************************************************)
(* Messages.  A message is its text together with the set of probe         *)
(* substrings the text contains, which is what String.includes reads.      *)
(***************************************************************************)
Msg(text, has) == [text |-> text, has |-> has]

Includes(m, sub) == sub \in m.has

MsgDeleteFailed == "Failed to delete task. Please try again."
MsgDeleteNotFound == "Task not found. It may have been deleted already."
MsgDeleteServer == "Server error occurred. Please try again later."
MsgDeleteNetwork == "Network error. Please check your connection and try again."
MsgCreateFailed == "Failed to create task"
MsgLoadFailed == "Failed to fetch tasks"
MsgNameRequired == "Task name is required"

\* Rejections of fetchApi: what went wrong (cause), whether the thrown value
\* is an Error, and its message.  A 404 response is reported with a message
\* naming the status or the server's "not found" text; the text of any other
\* failure is free, and may mention "not found" or "404" too.
Rejections ==
    {[cause |-> "404", isError |-> TRUE, message |-> m] :
        m \in {Msg("HTTP error! status: 404", {"404"}),
               Msg("Task not found", {"not found"})}}
    \cup
    {[cause |-> "500", isError |-> TRUE, message |-> m] :
        m \in {Msg("HTTP error! status: 500", {"500"}),
               Msg("A required record was not found", {"not found"})}}
    \cup
    {[cause |-> "network", isError |-> TRUE,
      message |-> Msg("Failed to fetch", {"fetch"})]}
    \cup
    {[cause |-> "validation", isError |-> TRUE,
      message |-> Msg("Validation failed", {})]}
    \cup
    {[cause |-> "nonError", isError |-> FALSE, message |-> Msg("", {})]}

\* Rejections tried for the GET and the POST, whose handlers read only
\* whether the value is an Error and its message.
PlainRejections == {rej \in Rejections : rej.cause \in {"validation", "nonError"}}

(***************************************************************************)
(* State of the component (useState hooks), requests in flight, and the    *)
(* label of the last step.                                                 *)
(***************************************************************************)
VARIABLES
    tasks,              \* ExampleTask[]
    isLoading,
    error,
    showCreateModal,
    isCreating,
    createError,
    formData,           \* [name, priority]
    validationErrors,   \* the name entry: Null (absent), "" or a message
    deletingTasks,      \* Set<string>
    showDeleteModal,
    taskToDelete,
    deleteError,
    loadPending,        \* the GET of loadTasks has not settled
    postReqs,           \* bag of payloads of unsettled POST requests
    deleteReqs,         \* bag of the taskToDelete of unsettled DELETE handlers
    issued,             \* ids the server has handed out so far
    nPosts,             \* POST requests issued so far
    nDeletes,           \* DELETE requests issued so far
    last,               \* the step that led to this state
    updatingTasks,      \* Set<string> of the status update plan
    updateErrors,       \* Map<string, string> of the status update plan
    updateReqs,         \* bag of the closures of unsettled PUT handlers
    nUpdates,           \* PUT requests issued so far
    store,              \* the task table of the service, in creation order
    assigned,           \* ids the service has generated, in order
    deleted,            \* ids the service has deleted
    now,                \* the clock of the store
    resp,               \* the answer to the last call of the service
    routeTaskId,        \* useParams().taskId of the detail page, 0: none
    detailTask,         \* task of the detail page
    detailIsLoading,    \* isLoading of the detail page
    detailError,        \* error of the detail page
    fetches,            \* GET /exercises/tasks/:id in flight, a bag of ids
    nNavigations        \* changes of the route parameter so far

listVars == <<tasks, isLoading, error, showCreateModal, isCreating,
              createError, formData, validationErrors, deletingTasks,
              showDeleteModal, taskToDelete, deleteError, loadPending,
              postReqs, deleteReqs, issued, nPosts, nDeletes, last>>

updateVars == <<updatingTasks, updateErrors, updateReqs, nUpdates>>

serviceVars == <<store, assigned, deleted, now, resp>>

\* The task detail page: the route parameter, its useState hooks, the GETs in
\* flight (by requested id) and the number of route changes.
detailVars == <<routeTaskId, detailTask, detailIsLoading, detailError, fetches,
                nNavigations>>

vars == <<listVars, updateVars, serviceVars, detailVars>>

createVars == <<showCreateModal, isCreating, createError, formData,
                validationErrors>>
deleteVars == <<deletingTasks, showDeleteModal, taskToDelete, deleteError>>
loadVars == <<isLoading, error, loadPending>>

\* op: the handler step, id: the record it is about, out: the outcome of the
\* request, early: the catch block of deleteTask returned early.
Event(op, id, out) == [op |-> op, id |-> id, out |-> out, early |-> FALSE]

EmptyForm == [name |-> <<>>, priority |-> "MEDIUM"]

(***************************************************************************)
(* Helpers on sequences.                                                   *)
(***************************************************************************)
Range(s) == {s[i] : i \in 1..Len(s)}

IdsOf(s) == {s[i].id : i \in 1..Len(s)}

\* Array.prototype.filter(task => task.id !== taskId)
RECURSIVE FilterOutId(_, _)
FilterOutId(s, taskId) ==
    IF s = <<>> THEN <<>>
    ELSE IF Head(s).id # taskId
         THEN <<Head(s)>> \o FilterOutId(Tail(s), taskId)
         ELSE FilterOutId(Tail(s), taskId)

\* Array.prototype.filter(task => task.status === st)
RECURSIVE FilterStatus(_, _)
FilterStatus(s, st) ==
    IF s = <<>> THEN <<>>
    ELSE IF Head(s).status = st
         THEN <<Head(s)>> \o FilterStatus(Tail(s), st)
         ELSE FilterStatus(Tail(s), st)

\* Insert t after the last element whose createdAt is not greater.
RECURSIVE InsertByCreatedAt(_, _)
InsertByCreatedAt(s, t) ==
    IF s = <<>> THEN <<t>>
    ELSE IF s[Len(s)].createdAt - t.createdAt > 0
         THEN InsertByCreatedAt(SubSeq(s, 1, Len(s) - 1), t) \o <<s[Len(s)]>>
         ELSE s \o <<t>>

\* Array.prototype.sort((a, b) => time(a.createdAt) - time(b.createdAt)):
\* a stable sort, elements that compare equal keep their relative order.
RECURSIVE SortByCreatedAt(_)
SortByCreatedAt(s) ==
    IF s = <<>> THEN <<>>
    ELSE InsertByCreatedAt(SortByCreatedAt(SubSeq(s, 1, Len(s) - 1)), s[Len(s)])

\* Lists the initial GET can return with statuses drawn from sts: distinct
\* ids, any order of createdAt.
LoadResponses(sts) ==
    {s \in UNION {[1..n -> [id : Ids, status : sts, createdAt : Times]] :
                     n \in 0..MaxLoad} :
        \A i \in 1..Len(s) : s[i].id = i}

\* No handler reads the status of a task; only the boards do.  The lists
\* tried where the boards are not the subject hold upcoming tasks only.
UpcomingLists == LoadResponses({"UPCOMING"})

\* Variant of BoardsShown: the boards are rendered from the first render on.
BoardsAlways == TRUE

\* The boards are rendered, so their buttons exist.
BoardsShown == ~isLoading /\ error = Null

\* A shown Modal overlays the page: the buttons of the boards can be used
\* only while neither dialog is open.
BoardsUsable == BoardsShown /\ ~showCreateModal /\ ~showDeleteModal

(***************************************************************************)
(* The task service behind the endpoints: its inputs and its records.      *)
(***************************************************************************)
\* Identifiers a request can name: those the store can hand out.
SvcIds == 1..MaxSvcTasks

Fields == {"name", "priority", "status"}

\* Values sent on the wire: members of the enums and a string outside them.
CreateNames == {<<>>, <<"a">>, <<" ", "b">>}
UpdateNames == {<<>>, <<"b">>}
WirePriorities == {"HIGH", "BOGUS"}
WireStatuses == {"COMPLETED", "BOGUS"}

\* A request body: the fields it gives and their values.
Input(given, name, priority, status) ==
    [given |-> given,
     name |-> IF "name" \in given THEN name ELSE <<>>,
     priority |-> IF "priority" \in given THEN priority ELSE "",
     status |-> IF "status" \in given THEN status ELSE ""]

NoInput == Input({}, <<>>, "", "")

CreateInputs ==
    {Input(g, n, p, st) : g \in SUBSET Fields, n \in CreateNames,
                          p \in WirePriorities, st \in WireStatuses}

UpdateInputs ==
    {Input(g, n, p, st) : g \in SUBSET Fields, n \in UpdateNames,
                          p \in WirePriorities, st \in WireStatuses}

\* Validation rules, task creation: name required (after trim), status and
\* priority optional and members of their enum.
CreateValidation(in) ==
    /\ "name" \in in.given
    /\ Trim(in.name) # <<>>
    /\ "priority" \in in.given => in.priority \in Priorities
    /\ "status" \in in.given => in.status \in Statuses

\* Validation rules, task updates: name optional but not empty if provided.
UpdateValidationNoName(in) ==
    /\ "priority" \in in.given => in.priority \in Priorities
    /\ "status" \in in.given => in.status \in Statuses

UpdateValidation(in) ==
    /\ "name" \in in.given => in.name # <<>>
    /\ "priority" \in in.given => in.priority \in Priorities
    /\ "status" \in in.given => in.status \in Statuses

\* @default(...) of the ExampleTask model.
WrongDefaultPriority == "LOW"

DefaultPriority == "MEDIUM"

DefaultStatus == "UPCOMING"

\* @default(uuid()): an identifier no task was ever given (the first one, as
\* the identifiers are opaque).
First(ids) == {id \in ids : \A other \in ids : id <= other}

ReusedUuid == First(SvcIds \ IdsOf(store))

Uuid == First(SvcIds \ assigned)

\* The row a create writes at time t.
NewTask(id, in, t) ==
    [id |-> id,
     name |-> Trim(in.name),
     priority |-> IF "priority" \in in.given THEN in.priority
                  ELSE DefaultPriority,
     status |-> IF "status" \in in.given THEN in.status ELSE DefaultStatus,
     createdAt |-> t,
     updatedAt |-> t]

\* The row an update writes at time t: the provided fields replace the old
\* ones, @updatedAt refreshes the timestamp.
Merge(task, in, t) ==
    [task EXCEPT
       !.name = IF "name" \in in.given THEN in.name ELSE @,
       !.priority = IF "priority" \in in.given THEN in.priority ELSE @,
       !.status = IF "status" \in in.given THEN in.status ELSE @,
       !.updatedAt = t]

MergeInStore(s, id, in, t) ==
    [i \in 1..Len(s) |-> IF s[i].id = id THEN Merge(s[i], in, t) ELSE s[i]]

\* The row with the given id.
Find(s, id) == s[CHOOSE i \in 1..Len(s) : s[i].id = id]

\* What create answers with: the row it wrote.
EchoInput(task, in) == [task EXCEPT !.name = in.name]

CreateResult(task, in) == task

\* What delete leaves in the store.
KeepRecord(s, id) == s

RemoveRecord(s, id) == FilterOutId(s, id)

\* The id of the task the previous call created, 0 if it created none.
Follows == IF resp.op = "create" /\ resp.kind = "ok" THEN resp.id ELSE 0

\* The status code of an answer: 201 for a created task, 200 for any other
\* success, 404 for a record not found, 422 for a validation error, 500 for
\* a server error.
HttpCodeWithout201(op, kind) ==
    CASE kind = "ok" -> 200
      [] kind = "NotFound" -> 404
      [] kind = "ValidationError" -> 422
      [] kind = "StorageFailure" -> 500
      [] OTHER -> 0

HttpCode(op, kind) ==
    CASE kind = "ok" /\ op = "create" -> 201
      [] kind = "ok" /\ op # "create" -> 200
      [] kind = "NotFound" -> 404
      [] kind = "ValidationError" -> 422
      [] kind = "StorageFailure" -> 500
      [] OTHER -> 0

\* The answer of a call: data holds the returned task, if any.
Response(op, id, in, kind, data) ==
    [op |-> op, id |-> id, input |-> in, kind |-> kind, data |-> data,
     follows |-> Follows, code |-> HttpCode(op, kind)]

\* No call of the service has been answered yet.
NoResponse ==
    [op |-> "none", id |-> 0, input |-> NoInput, kind |-> "none",
     data |-> <<>>, follows |-> 0, code |-> 0]

\* The detail page: no task (null), and the task the GET of an id answers
\* with, reduced to its id.
NoDetail == [id |-> 0]

DetailOf(id) == [id |-> id]

MsgTaskIdRequired == "Task ID is required"
MsgFetchTaskFailed == "Failed to fetch task"

(***************************************************************************)
(* Initial state: the first render, with the GET of loadTasks issued by    *)
(* the mount effect.                                                       *)
(***************************************************************************)
Init ==
    /\ tasks = <<>>
    /\ isLoading = TRUE
    /\ error = Null
    /\ showCreateModal = FALSE
    /\ isCreating = FALSE
    /\ createError = Null
    /\ formData = EmptyForm
    /\ validationErrors = Null
    /\ deletingTasks = {}
    /\ showDeleteModal = FALSE
    /\ taskToDelete = NoTask
    /\ deleteError = Null
    /\ loadPending = TRUE
    /\ postReqs = EmptyBag
    /\ deleteReqs = EmptyBag
    /\ issued = {}
    /\ nPosts = 0
    /\ nDeletes = 0
    /\ last = Event("mount", 0, "")
    /\ updatingTasks = {}
    /\ updateErrors = <<>>
    /\ updateReqs = EmptyBag
    /\ nUpdates = 0
    /\ store = <<>>
    /\ assigned = {}
    /\ deleted = {}
    /\ now = 0
    /\ resp = NoResponse
    /\ routeTaskId = 1
    /\ detailTask = NoDetail
    /\ detailIsLoading = TRUE
    /\ detailError = Null
    /\ fetches = SetToBag({1})
    /\ nNavigations = 0

(***************************************************************************)
(* loadTasks: the continuation after the GET settles.                      *)
(***************************************************************************)
LoadOk(list) ==
    /\ loadPending
    /\ loadPending' = FALSE
    /\ tasks' = list
    /\ isLoading' = FALSE
    /\ issued' = IdsOf(list)
    /\ last' = Event("loadOk", 0, "")
    /\ UNCHANGED <<error, createVars, deleteVars, postReqs, deleteReqs,
                   nPosts, nDeletes>>
    /\ UNCHANGED <<updateVars, serviceVars, detailVars>>

LoadFail(rej) ==
    /\ loadPending
    /\ loadPending' = FALSE
    /\ error' = IF rej.isError THEN rej.message.text ELSE MsgLoadFailed
    /\ tasks' = <<>>
    /\ isLoading' = FALSE
    /\ last' = Event("loadFail", 0, rej.cause)
    /\ UNCHANGED <<createVars, deleteVars, postReqs, deleteReqs, issued,
                   nPosts, nDeletes>>
    /\ UNCHANGED <<updateVars, serviceVars, detailVars>>

(***************************************************************************)
(* The create form.                                                        *)
(***************************************************************************)
\* "New Task" button of a board: resetForm, then open the form.
HandleNewTask ==
    /\ BoardsUsable
    /\ formData' = EmptyForm
    /\ validationErrors' = Null
    /\ createError' = Null
    /\ showCreateModal' = TRUE
    /\ last' = Event("newTask", 0, "")
    /\ UNCHANGED <<tasks, loadVars, isCreating, deleteVars, postReqs,
                   deleteReqs, issued, nPosts, nDeletes>>
    /\ UNCHANGED <<updateVars, serviceVars, detailVars>>

\* handleCloseModal, the state change shared by its three callers.
CloseModalEffect ==
    /\ showCreateModal' = FALSE
    /\ formData' = EmptyForm
    /\ validationErrors' = Null
    /\ createError' = Null

\* Cancel button of the form, disabled while a create is pending.
CancelCreate ==
    /\ showCreateModal
    /\ ~isCreating
    /\ CloseModalEffect
    /\ last' = Event("cancelCreate", 0, "")
    /\ UNCHANGED <<tasks, loadVars, isCreating, deleteVars, postReqs,
                   deleteReqs, issued, nPosts, nDeletes>>
    /\ UNCHANGED <<updateVars, serviceVars, detailVars>>

\* onHide of the form (header close button, ESC, backdrop): never disabled.
HideCreate ==
    /\ showCreateModal
    /\ CloseModalEffect
    /\ last' = Event("hideCreate", 0, "")
    /\ UNCHANGED <<tasks, loadVars, isCreating, deleteVars, postReqs,
                   deleteReqs, issued, nPosts, nDeletes>>
    /\ UNCHANGED <<updateVars, serviceVars, detailVars>>

\* handleInputChange('name', value)
InputName(value) ==
    /\ showCreateModal
    /\ formData' = [formData EXCEPT !.name = Trim(value)]
    /\ createError' = Null
    /\ validationErrors' =
          IF validationErrors \notin {Null, ""} THEN "" ELSE validationErrors
    /\ last' = Event("inputName", 0, "")
    /\ UNCHANGED <<tasks, loadVars, showCreateModal, isCreating, deleteVars,
                   postReqs, deleteReqs, issued, nPosts, nDeletes>>
    /\ UNCHANGED <<updateVars, serviceVars, detailVars>>

\* handleInputChange('priority', value)
InputPriority(value) ==
    /\ showCreateModal
    /\ formData' = [formData EXCEPT !.priority = value]
    /\ createError' = Null
    /\ last' = Event("inputPriority", 0, "")
    /\ UNCHANGED <<tasks, loadVars, showCreateModal, isCreating,
                   validationErrors, deleteVars, postReqs, deleteReqs, issued,
                   nPosts, nDeletes>>
    /\ UNCHANGED <<updateVars, serviceVars, detailVars>>

\* Variant of CreateDisabled: a pending create does not disable the button.
CreateDisabledByNameOnly == Trim(formData.name) = <<>>

\* disabled attribute of the "Create Task" button.
CreateDisabled == isCreating \/ Trim(formData.name) = <<>>

\* Variant of ValidateForm: every name passes.
ValidateNothing(form) == Null

\* validateForm: the name entry of the errors object it stores.
ValidateForm(form) == IF Trim(form.name) = <<>> THEN MsgNameRequired ELSE Null

\* createTask up to its await.
CreateTaskHandler ==
    /\ ValidateForm(formData) = Null => nPosts < MaxPosts
    /\ validationErrors' = ValidateForm(formData)
    /\ IF ValidateForm(formData) # Null
       THEN UNCHANGED <<isCreating, createError, postReqs, nPosts>>
       ELSE /\ isCreating' = TRUE
            /\ createError' = Null
            /\ postReqs' = postReqs (+)
                  SetToBag({[name |-> Trim(formData.name),
                             priority |-> formData.priority]})
            /\ nPosts' = nPosts + 1
    /\ last' = Event("createTask", 0, "")
    /\ UNCHANGED <<tasks, loadVars, showCreateModal, formData, deleteVars,
                   deleteReqs, issued, nDeletes>>
    /\ UNCHANGED <<updateVars, serviceVars, detailVars>>

\* "Create Task" button of the form.
CreateTask ==
    /\ showCreateModal
    /\ ~CreateDisabled
    /\ CreateTaskHandler

\* createTask called while the form is open without regard to the disabled
\* attribute of its button.
CallCreateTask ==
    /\ showCreateModal
    /\ CreateTaskHandler

\* Variant of AppendResponse: the new task is put first.
PrependResponse(prev, response) == <<response>> \o prev

\* prev => [...prev, response]
AppendResponse(prev, response) == Append(prev, response)

\* The id the server gives the next task: one it never handed out.
FreshId == CHOOSE id \in Ids \ issued : \A o \in Ids \ issued : id <= o

\* createTask after its await: the POST answered with a Task.
CreateOk(payload, at) ==
    /\ BagIn(payload, postReqs)
    /\ Ids \ issued # {}
    /\ LET response == [id |-> FreshId, status |-> "UPCOMING", createdAt |-> at]
       IN /\ tasks' = AppendResponse(tasks, response)
          /\ issued' = issued \cup {response.id}
          /\ last' = Event("createOk", response.id, "")
    /\ postReqs' = postReqs (-) SetToBag({payload})
    /\ CloseModalEffect
    /\ isCreating' = FALSE
    /\ UNCHANGED <<loadVars, deleteVars, deleteReqs, nPosts, nDeletes>>
    /\ UNCHANGED <<updateVars, serviceVars, detailVars>>

\* createTask after its await: the POST answered with an empty body.
CreateEmpty(payload) ==
    /\ BagIn(payload, postReqs)
    /\ postReqs' = postReqs (-) SetToBag({payload})
    /\ createError' = MsgCreateFailed
    /\ isCreating' = FALSE
    /\ last' = Event("createFail", 0, "empty")
    /\ UNCHANGED <<tasks, loadVars, showCreateModal, formData,
                   validationErrors, deleteVars, deleteReqs, issued, nPosts,
                   nDeletes>>
    /\ UNCHANGED <<updateVars, serviceVars, detailVars>>

\* createTask after its await: the POST was rejected.
CreateFail(payload, rej) ==
    /\ BagIn(payload, postReqs)
    /\ postReqs' = postReqs (-) SetToBag({payload})
    /\ createError' = IF rej.isError THEN rej.message.text ELSE MsgCreateFailed
    /\ isCreating' = FALSE
    /\ last' = Event("createFail", 0, rej.cause)
    /\ UNCHANGED <<tasks, loadVars, showCreateModal, formData,
                   validationErrors, deleteVars, deleteReqs, issued, nPosts,
                   nDeletes>>
    /\ UNCHANGED <<updateVars, serviceVars, detailVars>>

(***************************************************************************)
(* The delete confirmation dialog.                                         *)
(***************************************************************************)
\* disabled attribute of the delete button of a row.
RowDeleteDisabled(task) == task.id \in deletingTasks

\* Delete button of a row: handleDeleteTask(task).
HandleDeleteTask(task) ==
    /\ BoardsUsable
    /\ task \in Range(tasks)
    /\ ~RowDeleteDisabled(task)
    /\ taskToDelete' = task
    /\ deleteError' = Null
    /\ showDeleteModal' = TRUE
    /\ last' = Event("openDelete", task.id, "")
    /\ UNCHANGED <<tasks, loadVars, createVars, deletingTasks, postReqs,
                   deleteReqs, issued, nPosts, nDeletes>>
    /\ UNCHANGED <<updateVars, serviceVars, detailVars>>

\* Variant of CloseDeleteModalEffect: the target is kept.
CloseKeepingTarget ==
    /\ showDeleteModal' = FALSE
    /\ taskToDelete' = taskToDelete
    /\ deleteError' = Null

\* handleCloseDeleteModal, the state change shared by its callers.
CloseDeleteModalEffect ==
    /\ showDeleteModal' = FALSE
    /\ taskToDelete' = NoTask
    /\ deleteError' = Null

\* disabled attribute of the Cancel button of the dialog.
CancelDeleteDisabled ==
    IF taskToDelete # NoTask THEN taskToDelete.id \in deletingTasks ELSE FALSE

\* Variant of ConfirmDisabled: the deleting set is not consulted.
ConfirmDisabledWithoutSet == taskToDelete = NoTask

\* disabled attribute of the "Delete Task" button of the dialog.
ConfirmDisabled ==
    IF taskToDelete # NoTask THEN taskToDelete.id \in deletingTasks ELSE TRUE

\* Cancel button of the dialog.
CancelDelete ==
    /\ showDeleteModal
    /\ ~CancelDeleteDisabled
    /\ CloseDeleteModalEffect
    /\ last' = Event("cancelDelete", taskToDelete.id, "")
    /\ UNCHANGED <<tasks, loadVars, createVars, deletingTasks, postReqs,
                   deleteReqs, issued, nPosts, nDeletes>>
    /\ UNCHANGED <<updateVars, serviceVars, detailVars>>

\* onHide of the dialog (header close button, ESC, backdrop): never disabled.
HideDelete ==
    /\ showDeleteModal
    /\ CloseDeleteModalEffect
    /\ last' = Event("hideDelete", taskToDelete.id, "")
    /\ UNCHANGED <<tasks, loadVars, createVars, deletingTasks, postReqs,
                   deleteReqs, issued, nPosts, nDeletes>>
    /\ UNCHANGED <<updateVars, serviceVars, detailVars>>

\* Variant of OptimisticRemove: the record is not removed before the request.
RemoveNothing(prev, taskId) == prev

\* prev => prev.filter(task => task.id !== taskId)
OptimisticRemove(prev, taskId) == FilterOutId(prev, taskId)

\* Variant of MarkDeleting: the id is not recorded.
MarkNothing(prev, taskId) == prev

\* prev => new Set(prev).add(taskToDelete.id)
MarkDeleting(prev, taskId) == prev \cup {taskId}

\* deleteTask up to its await.
DeleteTask ==
    /\ showDeleteModal
    /\ ~ConfirmDisabled
    /\ taskToDelete # NoTask
    /\ nDeletes < MaxDeletes
    /\ deletingTasks' = MarkDeleting(deletingTasks, taskToDelete.id)
    /\ deleteError' = Null
    /\ tasks' = OptimisticRemove(tasks, taskToDelete.id)
    /\ deleteReqs' = deleteReqs (+) SetToBag({taskToDelete})
    /\ nDeletes' = nDeletes + 1
    /\ last' = Event("confirmDelete", taskToDelete.id, "")
    /\ UNCHANGED <<loadVars, createVars, showDeleteModal, taskToDelete,
                   postReqs, issued, nPosts>>
    /\ UNCHANGED <<updateVars, serviceVars, detailVars>>

\* Variant of ReleaseDeleting: the id is never released.
ReleaseNothing(prev, taskId) == prev

\* The finally block of deleteTask.
ReleaseDeleting(prev, taskId) == prev \ {taskId}

\* deleteTask after its await: the DELETE succeeded.
DeleteOk(task) ==
    /\ BagIn(task, deleteReqs)
    /\ deleteReqs' = deleteReqs (-) SetToBag({task})
    /\ CloseDeleteModalEffect
    /\ deletingTasks' = ReleaseDeleting(deletingTasks, task.id)
    /\ last' = Event("deleteOk", task.id, "ok")
    /\ UNCHANGED <<tasks, loadVars, createVars, postReqs, issued, nPosts,
                   nDeletes>>
    /\ UNCHANGED <<updateVars, serviceVars, detailVars>>

\* Variant of TreatedAsNotFound: only the status number is looked for.
TreatedAsNotFoundByNumber(rej) == rej.isError /\ Includes(rej.message, "404")

\* The test that sends the catch block to its early return.
TreatedAsNotFound(rej) ==
    rej.isError /\ (Includes(rej.message, "404")
                    \/ Includes(rej.message, "not found"))

\* errorMessage at the end of the catch block, when it does not return early.
DeleteErrorMessage(rej) ==
    IF ~rej.isError THEN MsgDeleteFailed
    ELSE IF Includes(rej.message, "500") \/ Includes(rej.message, "server")
         THEN MsgDeleteServer
    ELSE IF Includes(rej.message, "network") \/ Includes(rej.message, "fetch")
         THEN MsgDeleteNetwork
    ELSE rej.message.text

\* Variant of Rollback: the list is reset to the record alone.
RollbackAlone(prev, task) == <<task>>

\* prev => [...prev, taskToDelete].sort(by createdAt)
Rollback(prev, task) == SortByCreatedAt(Append(prev, task))

\* Variant of DeleteFail: the handler sends the DELETE again by itself.
DeleteFailRetrying(task, rej) ==
    /\ BagIn(task, deleteReqs)
    /\ nDeletes < MaxDeletes
    /\ nDeletes' = nDeletes + 1
    /\ last' = [Event("deleteFail", task.id, rej.cause)
                   EXCEPT !.early = TreatedAsNotFound(rej)]
    /\ UNCHANGED <<tasks, loadVars, createVars, deleteVars, postReqs,
                   deleteReqs, issued, nPosts>>
    /\ UNCHANGED <<updateVars, serviceVars, detailVars>>

\* deleteTask after its await: the DELETE was rejected.
DeleteFail(task, rej) ==
    /\ BagIn(task, deleteReqs)
    /\ deleteReqs' = deleteReqs (-) SetToBag({task})
    /\ IF TreatedAsNotFound(rej)
       THEN /\ CloseDeleteModalEffect
            /\ UNCHANGED tasks
       ELSE /\ tasks' = Rollback(tasks, task)
            /\ deleteError' = DeleteErrorMessage(rej)
            /\ UNCHANGED <<showDeleteModal, taskToDelete>>
    /\ deletingTasks' = ReleaseDeleting(deletingTasks, task.id)
    /\ last' = [Event("deleteFail", task.id, rej.cause)
                   EXCEPT !.early = TreatedAsNotFound(rej)]
    /\ UNCHANGED <<loadVars, createVars, postReqs, issued, nPosts, nDeletes>>
    /\ UNCHANGED <<updateVars, serviceVars, detailVars>>

(***************************************************************************)
(* The status update of the task system documentation (Task Status         *)
(* Updates): the list page of the repository has no such handler, the      *)
(* documentation gives it as implemented.                                  *)
(***************************************************************************)
\* getStatusActions: the statuses the action buttons of a task lead to.
StatusActions(status) ==
    CASE status = "UPCOMING" -> {"IN_PROGRESS"}
      [] status = "IN_PROGRESS" -> {"COMPLETED"}
      [] status = "COMPLETED" -> {"UPCOMING"}

\* prev.map(task => task.id === taskId ? { ...task, status: newStatus } : task)
SetStatus(prev, taskId, newStatus) ==
    [i \in 1..Len(prev) |->
        IF prev[i].id = taskId THEN [prev[i] EXCEPT !.status = newStatus]
        ELSE prev[i]]

\* updateTaskStatus up to its await.
UpdateTaskStatus(task, newStatus) ==
    /\ BoardsUsable
    /\ task \in Range(tasks)
    /\ newStatus \in StatusActions(task.status)
    /\ nUpdates < MaxUpdates
    /\ tasks' = SetStatus(tasks, task.id, newStatus)
    /\ updateReqs' = updateReqs (+)
          SetToBag({[taskId |-> task.id, newStatus |-> newStatus,
                     originalTasks |-> tasks]})
    /\ nUpdates' = nUpdates + 1
    /\ last' = Event("updateStatus", task.id, "")
    /\ UNCHANGED <<loadVars, createVars, deleteVars, postReqs, deleteReqs,
                   issued, nPosts, nDeletes>>
    /\ UNCHANGED <<updatingTasks, updateErrors, serviceVars, detailVars>>

\* updateTaskStatus after its await: the PUT succeeded.
UpdateOk(req) ==
    /\ BagIn(req, updateReqs)
    /\ updateReqs' = updateReqs (-) SetToBag({req})
    /\ last' = Event("updateOk", req.taskId, "")
    /\ UNCHANGED <<tasks, loadVars, createVars, deleteVars, postReqs,
                   deleteReqs, issued, nPosts, nDeletes>>
    /\ UNCHANGED <<updatingTasks, updateErrors, nUpdates, serviceVars, detailVars>>

\* updateTaskStatus after its await: the PUT was rejected; the catch block
\* does not look at the error.
UpdateFail(req) ==
    /\ BagIn(req, updateReqs)
    /\ updateReqs' = updateReqs (-) SetToBag({req})
    /\ tasks' = req.originalTasks
    /\ last' = Event("updateFail", req.taskId, "")
    /\ UNCHANGED <<loadVars, createVars, deleteVars, postReqs, deleteReqs,
                   issued, nPosts, nDeletes>>
    /\ UNCHANGED <<updatingTasks, updateErrors, nUpdates, serviceVars, detailVars>>

(***************************************************************************)
(* Specification.                                                          *)
(***************************************************************************)
Next ==
    \/ \E list \in UpcomingLists : LoadOk(list)
    \/ \E rej \in PlainRejections : LoadFail(rej)
    \/ HandleNewTask
    \/ CancelCreate
    \/ HideCreate
    \/ \E value \in TypedNames : InputName(value)
    \/ \E value \in Priorities : InputPriority(value)
    \/ CreateTask
    \/ \E payload \in BagToSet(postReqs), at \in Times : CreateOk(payload, at)
    \/ \E payload \in BagToSet(postReqs) : CreateEmpty(payload)
    \/ \E payload \in BagToSet(postReqs), rej \in PlainRejections :
          CreateFail(payload, rej)
    \/ \E task \in Range(tasks) : HandleDeleteTask(task)
    \/ CancelDelete
    \/ HideDelete
    \/ DeleteTask
    \/ \E task \in BagToSet(deleteReqs) : DeleteOk(task)
    \/ \E task \in BagToSet(deleteReqs), rej \in Rejections :
          DeleteFail(task, rej)

Spec == Init /\ [][Next]_vars

TypeOK ==
    /\ Range(tasks) \subseteq Task
    /\ isLoading \in BOOLEAN
    /\ showCreateModal \in BOOLEAN
    /\ isCreating \in BOOLEAN
    /\ formData.name \in TypedNames
    /\ formData.priority \in Priorities
    /\ deletingTasks \subseteq Ids
    /\ showDeleteModal \in BOOLEAN
    /\ taskToDelete \in Task \cup {NoTask}
    /\ nPosts \in 0..MaxPosts
    /\ nDeletes \in 0..MaxDeletes

\* The steps of the page with the documented status update added.
UpdateNext ==
    \/ Next
    \/ \E task \in Range(tasks), newStatus \in Statuses :
          UpdateTaskStatus(task, newStatus)
    \/ \E req \in BagToSet(updateReqs) : UpdateOk(req)
    \/ \E req \in BagToSet(updateReqs) : UpdateFail(req)

UpdateSpec == Init /\ [][UpdateNext]_vars

(***************************************************************************)
(* The three boards of the page.                                           *)
(***************************************************************************)
\* Variant of upcomingTasks: every task that is not completed.
notCompletedTasks ==
    FilterStatus(tasks, "UPCOMING") \o FilterStatus(tasks, "IN_PROGRESS")

upcomingTasks == FilterStatus(tasks, "UPCOMING")

inProgressTasks == FilterStatus(tasks, "IN_PROGRESS")

completedTasks == FilterStatus(tasks, "COMPLETED")

\* The steps of the page when the initial GET can answer with tasks of any
\* status.
BoardNext ==
    \/ \E list \in LoadResponses(Statuses) : LoadOk(list)
    \/ \E rej \in PlainRejections : LoadFail(rej)
    \/ HandleNewTask
    \/ CancelCreate
    \/ HideCreate
    \/ \E value \in TypedNames : InputName(value)
    \/ \E value \in Priorities : InputPriority(value)
    \/ CreateTask
    \/ \E payload \in BagToSet(postReqs), at \in Times : CreateOk(payload, at)
    \/ \E payload \in BagToSet(postReqs) : CreateEmpty(payload)
    \/ \E payload \in BagToSet(postReqs), rej \in PlainRejections :
          CreateFail(payload, rej)
    \/ \E task \in Range(tasks) : HandleDeleteTask(task)
    \/ CancelDelete
    \/ HideDelete
    \/ DeleteTask
    \/ \E task \in BagToSet(deleteReqs) : DeleteOk(task)
    \/ \E task \in BagToSet(deleteReqs), rej \in Rejections :
          DeleteFail(task, rej)

BoardSpec == Init /\ [][BoardNext]_vars

(***************************************************************************)
(* ExerciseTaskDetail: the effect that loads the task of the route, run at  *)
(* mount and whenever taskId changes, and its continuations.               *)
(***************************************************************************)
\* The route changes to another task (or to none): the effect runs loadTask
\* up to its await.
Navigate(id) ==
    /\ id # routeTaskId
    /\ nNavigations < MaxNavigations
    /\ nNavigations' = nNavigations + 1
    /\ routeTaskId' = id
    /\ IF id = 0
       THEN /\ detailError' = MsgTaskIdRequired
            /\ detailIsLoading' = FALSE
            /\ UNCHANGED fetches
       ELSE /\ detailIsLoading' = TRUE
            /\ detailError' = Null
            /\ fetches' = fetches (+) SetToBag({id})
    /\ UNCHANGED <<detailTask, listVars, updateVars, serviceVars>>

\* loadTask after its await: the GET answered with the task.
FetchOk(id) ==
    /\ BagIn(id, fetches)
    /\ fetches' = fetches (-) SetToBag({id})
    /\ detailTask' = DetailOf(id)
    /\ detailIsLoading' = FALSE
    /\ UNCHANGED <<routeTaskId, detailError, nNavigations, listVars, updateVars,
                   serviceVars>>

\* loadTask after its await: the GET was rejected.
FetchFail(id, rej) ==
    /\ BagIn(id, fetches)
    /\ fetches' = fetches (-) SetToBag({id})
    /\ detailError' = IF rej.isError THEN rej.message.text
                      ELSE MsgFetchTaskFailed
    /\ detailTask' = NoDetail
    /\ detailIsLoading' = FALSE
    /\ UNCHANGED <<routeTaskId, nNavigations, listVars, updateVars, serviceVars>>

DetailNext ==
    \/ \E id \in 0..MaxRoute : Navigate(id)
    \/ \E id \in BagToSet(fetches) : FetchOk(id)
    \/ \E id \in BagToSet(fetches), rej \in PlainRejections :
          FetchFail(id, rej)

DetailSpec == Init /\ [][DetailNext]_vars

DetailTypeOK ==
    /\ routeTaskId \in 0..MaxRoute
    /\ detailTask \in {NoDetail} \cup {DetailOf(id) : id \in 1..MaxRoute}
    /\ detailIsLoading \in BOOLEAN
    /\ BagToSet(fetches) \subseteq 1..MaxRoute
    /\ nNavigations \in 0..MaxNavigations

(***************************************************************************)
(* The delete flow alone, on initial lists in any order of createdAt.      *)
(***************************************************************************)
InitialLists ==
    {s \in UNION {[1..n -> [id : Ids, status : {"UPCOMING"},
                            createdAt : Times]] : n \in 0..MaxInitial} :
        \A i \in 1..Len(s) : s[i].id = i}

RollbackNext ==
    \/ \E list \in InitialLists : LoadOk(list)
    \/ \E rej \in PlainRejections : LoadFail(rej)
    \/ \E task \in Range(tasks) : HandleDeleteTask(task)
    \/ CancelDelete
    \/ HideDelete
    \/ DeleteTask
    \/ \E task \in BagToSet(deleteReqs) : DeleteOk(task)
    \/ \E task \in BagToSet(deleteReqs), rej \in Rejections :
          DeleteFail(task, rej)

RollbackSpec == Init /\ [][RollbackNext]_vars

\* The steps of the page when createTask can be called whatever the state of
\* its button: every behaviour of Spec is one of HandlerSpec.
HandlerNext ==
    \/ \E list \in UpcomingLists : LoadOk(list)
    \/ \E rej \in PlainRejections : LoadFail(rej)
    \/ HandleNewTask
    \/ CancelCreate
    \/ HideCreate
    \/ \E value \in TypedNames : InputName(value)
    \/ \E value \in Priorities : InputPriority(value)
    \/ CallCreateTask
    \/ \E payload \in BagToSet(postReqs), at \in Times : CreateOk(payload, at)
    \/ \E payload \in BagToSet(postReqs) : CreateEmpty(payload)
    \/ \E payload \in BagToSet(postReqs), rej \in PlainRejections :
          CreateFail(payload, rej)
    \/ \E task \in Range(tasks) : HandleDeleteTask(task)
    \/ CancelDelete
    \/ HideDelete
    \/ DeleteTask
    \/ \E task \in BagToSet(deleteReqs) : DeleteOk(task)
    \/ \E task \in BagToSet(deleteReqs), rej \in Rejections :
          DeleteFail(task, rej)

HandlerSpec == Init /\ [][HandlerNext]_vars

(***************************************************************************)
(* Fairness: every DELETE request in flight settles.                       *)
(***************************************************************************)
SettleDelete ==
    \E task \in BagToSet(deleteReqs) :
        \/ DeleteOk(task)
        \/ \E rej \in Rejections : DeleteFail(task, rej)

FairSpec == Spec /\ WF_vars(SettleDelete)

(***************************************************************************)
(* The task service: create, get, update and delete on the store. Requests *)
(* pass the validation layer before they reach the service.                *)
(***************************************************************************)
SvcCreate(in) ==
    /\ IF ~CreateValidation(in)
       THEN /\ resp' = Response("create", 0, in, "ValidationError", <<>>)
            /\ UNCHANGED <<store, assigned, now>>
       ELSE \E id \in Uuid :
            /\ now < MaxClock
            /\ now' = now + 1
            /\ store' = Append(store, NewTask(id, in, now'))
            /\ assigned' = assigned \cup {id}
            /\ resp' = Response("create", id, in, "ok",
                                <<CreateResult(NewTask(id, in, now'), in)>>)
    /\ UNCHANGED <<deleted, listVars, updateVars, detailVars>>

SvcGet(id) ==
    /\ resp' = IF id \in IdsOf(store)
               THEN Response("get", id, NoInput, "ok", <<Find(store, id)>>)
               ELSE Response("get", id, NoInput, "NotFound", <<>>)
    /\ UNCHANGED <<store, assigned, deleted, now, listVars, updateVars, detailVars>>

SvcUpdate(id, in) ==
    /\ IF ~UpdateValidation(in)
       THEN /\ resp' = Response("update", id, in, "ValidationError", <<>>)
            /\ UNCHANGED <<store, now>>
       ELSE IF id \notin IdsOf(store)
       THEN /\ resp' = Response("update", id, in, "NotFound", <<>>)
            /\ UNCHANGED <<store, now>>
       ELSE /\ now < MaxClock
            /\ now' = now + 1
            /\ store' = MergeInStore(store, id, in, now')
            /\ resp' = Response("update", id, in, "ok", <<Find(store', id)>>)
    /\ UNCHANGED <<assigned, deleted, listVars, updateVars, detailVars>>

SvcDelete(id) ==
    /\ IF id \notin IdsOf(store)
       THEN /\ resp' = Response("delete", id, NoInput, "NotFound", <<>>)
            /\ UNCHANGED <<store, deleted>>
       ELSE /\ store' = RemoveRecord(store, id)
            /\ deleted' = deleted \cup {id}
            /\ resp' = Response("delete", id, NoInput, "ok", <<>>)
    /\ UNCHANGED <<assigned, now, listVars, updateVars, detailVars>>

\* The rows of a list call: all of them or the ones with the status of the
\* filter, by createdAt.
ListOrderDesc(s) ==
    [i \in 1..Len(s) |-> SortByCreatedAt(s)[Len(s) + 1 - i]]

ListOrder(s) == SortByCreatedAt(s)

ListFilters == {Input({}, <<>>, "", "")} \cup
               {Input({"status"}, <<>>, "", st) : st \in Statuses}

SvcList(filter) ==
    /\ resp' = Response("list", 0, filter, "ok",
                        IF "status" \in filter.given
                        THEN ListOrder(FilterStatus(store, filter.status))
                        ELSE ListOrder(store))
    /\ UNCHANGED <<store, assigned, deleted, now, listVars, updateVars, detailVars>>

ServiceNext ==
    \/ \E filter \in ListFilters : SvcList(filter)
    \/ \E in \in CreateInputs : SvcCreate(in)
    \/ \E id \in SvcIds : SvcGet(id)
    \/ \E id \in SvcIds, in \in UpdateInputs : SvcUpdate(id, in)
    \/ \E id \in SvcIds : SvcDelete(id)

ServiceSpec == Init /\ [][ServiceNext]_vars

\* A call that meets an unexpected error of the store or the server: nothing
\* is written.
SvcUnavailable(op, id) ==
    /\ resp' = Response(op, id, NoInput, "StorageFailure", <<>>)
    /\ UNCHANGED <<store, assigned, deleted, now, listVars, updateVars, detailVars>>

\* The endpoints: the calls of the service, each of which can also meet a
\* server error.
HttpNext ==
    \/ ServiceNext
    \/ \E op \in {"list", "create"} : SvcUnavailable(op, 0)
    \/ \E op \in {"get", "update", "delete"}, id \in SvcIds :
          SvcUnavailable(op, id)

HttpSpec == Init /\ [][HttpNext]_vars

SvcTask ==
    [id : SvcIds, name : {<<"a">>, <<"b">>}, priority : Priorities,
     status : Statuses, createdAt : 1..MaxClock, updatedAt : 1..MaxClock]

ServiceTypeOK ==
    /\ Range(store) \subseteq SvcTask
    /\ assigned \subseteq SvcIds
    /\ deleted \subseteq assigned
    /\ IdsOf(store) = assigned \ deleted
    /\ now \in 0..MaxClock
    /\ resp.kind \in {"none", "ok", "NotFound", "ValidationError",
                     "StorageFailure"}
    /\ resp.op # "list" => Len(resp.data) <= 1

(***************************************************************************)
(* Properties.                                                             *)
(***************************************************************************)
Occurrences(s, id) == Cardinality({i \in 1..Len(s) : s[i].id = id})

SortedByCreatedAt(s) ==
    \A i \in 1..Len(s) : \A j \in i..Len(s) : s[i].createdAt <= s[j].createdAt

InFlightIds == {t.id : t \in BagToSet(deleteReqs)}

DialogClosed == ~showDeleteModal /\ taskToDelete = NoTask /\ deleteError = Null

\* C1: confirming the deletion of A removes A from the collection and puts
\* A.id into the deleting set in the step that issues the request, before it
\* settles; when the request succeeds A is still absent and the dialog is
\* closed (showDeleteModal false, taskToDelete null, deleteError null).
C1_OptimisticDelete ==
    /\ last.op = "confirmDelete" =>
          /\ last.id \notin IdsOf(tasks)
          /\ last.id \in deletingTasks
          /\ last.id \in InFlightIds
    /\ last.op = "deleteOk" =>
          /\ last.id \notin IdsOf(tasks)
          /\ DialogClosed

C1_Witness == last.op = "deleteOk" /\ tasks # <<>> /\ deleteReqs # EmptyBag

C3_NotFoundMessageShown ==
    (last.op = "deleteFail" /\ last.out = "404") =>
        MsgDeleteNotFound \in {error, createError, deleteError, validationErrors}

\* C4 (as claimed): after a DELETE of A failed for another reason than a 404
\* response, A is in the collection exactly once, the collection is ordered
\* by ascending createdAt and a delete error is set, whatever the text of the
\* failure's message.
C4_OtherFailureRollsBack ==
    (last.op = "deleteFail" /\ last.out # "404") =>
        /\ Occurrences(tasks, last.id) = 1
        /\ SortedByCreatedAt(tasks)
        /\ deleteError # Null

\* C5 (as claimed): whenever a DELETE of A settles with a failure that is
\* rolled back, the dialog is open for A with the error shown, whatever the
\* user did while the request was in flight.
C5_FailureShownInDialog ==
    (last.op = "deleteFail" /\ last.out # "404" /\ ~last.early) =>
        /\ showDeleteModal
        /\ taskToDelete.id = last.id
        /\ deleteError # Null

\* C6 (as claimed): when a DELETE of A settles while the dialog is open for a
\* different record B, the dialog state of B (showDeleteModal, taskToDelete,
\* deleteError) is left as it was.
C6_OutcomesIndependent ==
    [][(/\ last'.op \in {"deleteOk", "deleteFail"}
        /\ showDeleteModal
        /\ taskToDelete # NoTask
        /\ taskToDelete.id # last'.id)
       => UNCHANGED <<showDeleteModal, taskToDelete, deleteError>>]_vars

\* C7: at most one DELETE request per record id is in flight; the ids in
\* flight are those of the deleting set, and while the id of the dialog's
\* record is in that set the confirm button is disabled.
C7_OneDeletePerId ==
    /\ \A t \in BagToSet(deleteReqs) :
          /\ CopiesIn(t, deleteReqs) = 1
          /\ \A u \in BagToSet(deleteReqs) : u.id = t.id => u = t
    /\ InFlightIds = deletingTasks
    /\ (taskToDelete.id \in InFlightIds) => ~ENABLED DeleteTask

C7_Witness ==
    /\ showDeleteModal
    /\ taskToDelete.id \in deletingTasks
    /\ nDeletes >= 2

\* C8: once the handler of a DELETE of A has finished, for each of its three
\* outcomes, A.id is not in the deleting set and the ids of the other
\* requests in flight still are; and if every request settles, each id
\* leaves the deleting set and the set is eventually empty for good.
C8_ReleasedAfterSettle ==
    (last.op \in {"deleteOk", "deleteFail"}) =>
        /\ last.id \notin deletingTasks
        /\ InFlightIds \subseteq deletingTasks

C8_Release ==
    /\ []C8_ReleasedAfterSettle
    /\ \A id \in Ids : (id \in deletingTasks) ~> (id \notin deletingTasks)
    /\ <>[](deletingTasks = {})

C8_Witness ==
    /\ last.op = "deleteFail"
    /\ last.early
    /\ deletingTasks # {}

\* C9: when a create succeeds the returned task is appended once at the end
\* of the collection, the earlier elements keep their places, the form is
\* closed and reset to name '' and priority MEDIUM, and isCreating is false.
C9_CreateAppends ==
    [][(last'.op = "createOk") =>
          /\ Len(tasks') = Len(tasks) + 1
          /\ SubSeq(tasks', 1, Len(tasks)) = tasks
          /\ tasks'[Len(tasks')].id = last'.id
          /\ ~showCreateModal'
          /\ formData' = [name |-> <<>>, priority |-> "MEDIUM"]
          /\ ~isCreating']_vars

C9_Witness == last.op = "createOk" /\ Len(tasks) >= 2 /\ tasks[Len(tasks)].id = last.id

\* C10 (as claimed): when a create fails the collection is unchanged and the
\* form is open with a create error attached and isCreating false, whatever
\* the user did while the request was in flight.
C10_CreateFailureShown ==
    [][(last'.op = "createFail") =>
          /\ tasks' = tasks
          /\ showCreateModal'
          /\ createError' # Null
          /\ ~isCreating']_vars

\* C11: createTask issues no POST for a name that is empty after trimming:
\* called with such a name it stores 'Task name is required', issues no
\* request and leaves the collection and isCreating as they were; every name
\* in a payload is non-empty and has no blank at either end.
C11_PayloadNames ==
    \A p \in BagToSet(postReqs) :
        /\ p.name # <<>>
        /\ Head(p.name) # " "
        /\ p.name[Len(p.name)] # " "

C12_OnePostInFlight ==
    /\ BagCardinality(postReqs) <= 1
    /\ isCreating <=> postReqs # EmptyBag
    /\ isCreating => ~ENABLED CreateTask

C12_Witness ==
    /\ isCreating
    /\ showCreateModal
    /\ Trim(formData.name) # <<>>
    /\ nPosts = 2

\* C13: the controller never retries by itself: a request is issued only by
\* a step in which the user submits the form or confirms a deletion, one
\* request per such step, and the step in which a request settles issues
\* none and leaves one request fewer in flight.
C13_NoAutomaticRetry ==
    [][/\ (nPosts' # nPosts \/ nDeletes' # nDeletes) =>
             /\ last'.op \in {"createTask", "confirmDelete"}
             /\ (nPosts' - nPosts) + (nDeletes' - nDeletes) = 1
       /\ (last'.op \in {"createOk", "createFail", "deleteOk", "deleteFail"}) =>
             /\ nPosts' = nPosts
             /\ nDeletes' = nDeletes
             /\ BagCardinality(postReqs') + BagCardinality(deleteReqs')
                  = BagCardinality(postReqs) + BagCardinality(deleteReqs) - 1]_vars

C13_Witness ==
    /\ last.op = "deleteFail"
    /\ ~last.early
    /\ deleteReqs = EmptyBag
    /\ nDeletes = 1

\* The elements of s that carry the id.
CopiesOf(s, id) == {s[i] : i \in {j \in 1..Len(s) : s[j].id = id}}

\* C14 (as claimed): when the server rejects an update of A, the copy of A
\* the page shows afterwards is the one of the snapshot taken before the
\* update, an error message for A is present and A.id is not in the
\* updating set; after a successful update A.id is not in that set either.
C14_UpdateRollback ==
    [][/\ (last'.op = "updateFail") =>
             /\ \E req \in BagToSet(updateReqs) :
                   /\ req.taskId = last'.id
                   /\ CopiesOf(tasks', last'.id)
                        = CopiesOf(req.originalTasks, last'.id)
             /\ last'.id \in DOMAIN updateErrors'
             /\ last'.id \notin updatingTasks'
       /\ (last'.op = "updateOk") => last'.id \notin updatingTasks']_vars

\* C15 (as claimed): the rollback of a failed update of A leaves every other
\* record as it was just before the rollback: none appears, disappears or
\* changes.
C15_RollbackOnlyReverts ==
    [][(last'.op = "updateFail") =>
          FilterOutId(tasks', last'.id) = FilterOutId(tasks, last'.id)]_vars

\* The ids of the store, in the order of the store.
IdSeq(s) == [i \in 1..Len(s) |-> s[i].id]

\* C16: a delete of an id that is not in the store fails with NotFound and
\* leaves the store unchanged; once an id was deleted, every later delete
\* and get of it fails with NotFound, whatever ran in between.
C16_DeleteNotFound ==
    [][/\ (resp'.op = "delete" /\ resp'.id \notin IdsOf(store)) =>
             /\ resp'.kind = "NotFound"
             /\ store' = store
       /\ (resp'.op \in {"delete", "get"} /\ resp'.id \in deleted) =>
             /\ resp'.kind = "NotFound"
             /\ resp'.data = <<>>
             /\ resp'.id \notin IdsOf(store')]_vars

\* C16 witness: a get of a deleted id was answered NotFound after another
\* task had been created in between.
C16_Witness ==
    /\ resp.op = "get"
    /\ resp.id \in deleted
    /\ resp.kind = "NotFound"
    /\ store # <<>>

\* An update body the claim calls invalid.
InvalidUpdateInput(in) ==
    \/ ("name" \in in.given /\ in.name = <<>>)
    \/ ("status" \in in.given /\ in.status \notin Statuses)
    \/ ("priority" \in in.given /\ in.priority \notin Priorities)

ValidCreateInput(in) ==
    /\ "name" \in in.given
    /\ Trim(in.name) # <<>>
    /\ "priority" \in in.given => in.priority \in Priorities
    /\ "status" \in in.given => in.status \in Statuses

\* What C18 says of every create but the status of the result.
CreateContract ==
    (resp'.op = "create") =>
       /\ ValidCreateInput(resp'.input) =>
             /\ resp'.kind = "ok"
             /\ Len(resp'.data) = 1
             /\ resp'.data[1].priority =
                   (IF "priority" \in resp'.input.given
                    THEN resp'.input.priority ELSE "MEDIUM")
             /\ resp'.data[1].id \notin IdsOf(store)
             /\ store' = Append(store, resp'.data[1])
       /\ ("name" \notin resp'.input.given \/ resp'.input.name = <<>>) =>
             /\ resp'.kind = "ValidationError"
             /\ store' = store

C19_RoundTrip ==
    [][(/\ resp.op = "create"
        /\ resp.kind = "ok"
        /\ resp'.op = "get"
        /\ resp'.id = resp.data[1].id) =>
          /\ resp'.kind = "ok"
          /\ [resp'.data[1] EXCEPT !.updatedAt = 0]
               = [resp.data[1] EXCEPT !.updatedAt = 0]]_vars

\* C19 witness: a get directly after the create of the same id, whose name
\* was sent with a leading blank.
C19_Witness ==
    /\ resp.op = "get"
    /\ resp.follows = resp.id
    /\ resp.kind = "ok"
    /\ resp.data[1].name = <<"b">>

\* C20: an update changes no id, a create never hands out an id that was
\* assigned before (also after its task was deleted), and every stored task
\* has a status and a priority of the enums.
C20_IdsAndEnums ==
    /\ [](\A i \in 1..Len(store) :
             /\ store[i].status \in {"UPCOMING", "IN_PROGRESS", "COMPLETED"}
             /\ store[i].priority \in {"LOW", "MEDIUM", "HIGH"})
    /\ [][/\ (resp'.op = "update") => IdSeq(store') = IdSeq(store)
          /\ (resp'.op = "create" /\ resp'.kind = "ok") =>
                /\ resp'.id \notin assigned
                /\ resp'.data[1].id = resp'.id
                /\ IdsOf(store') = IdsOf(store) \cup {resp'.id}]_vars

\* C20 witness: a task was created after the task before it had been
\* updated and then deleted.
C20_Witness ==
    /\ resp.op = "create"
    /\ resp.kind = "ok"
    /\ deleted # {}
    /\ resp.id \notin deleted
    /\ now = 3

\* The positions of s whose task has a status of sts, in increasing order.
RECURSIVE Select(_, _)
Select(s, sts) ==
    IF s = <<>> THEN <<>>
    ELSE IF s[Len(s)].status \in sts
         THEN Append(Select(SubSeq(s, 1, Len(s) - 1), sts), s[Len(s)])
         ELSE Select(SubSeq(s, 1, Len(s) - 1), sts)

\* C21: list() answers with the stored tasks in the order of their creation
\* after any sequence of create, update and delete (an update moves no
\* task), and list(status) with exactly the stored tasks of that status in
\* the same relative order.
C21_ListOrder ==
    /\ [](\A i \in 1..Len(store) : \A j \in 1..Len(store) :
             i < j => store[i].createdAt < store[j].createdAt)
    /\ [](resp.op = "list" =>
             /\ resp.kind = "ok"
             /\ resp.data = Select(store,
                    IF "status" \in resp.input.given
                    THEN {resp.input.status} ELSE Statuses))
    /\ [][resp'.op = "update" => IdSeq(store') = IdSeq(store)]_vars

\* C21 witness: a list by status answered with one of two stored tasks, the
\* older of which had been updated after the younger was created.
C21_Witness ==
    /\ resp.op = "list"
    /\ "status" \in resp.input.given
    /\ Len(resp.data) = 1
    /\ Len(store) = 2
    /\ store[1].updatedAt > store[2].createdAt

\* What C22 says of every call but the status of a created task: the codes
\* of the kinds, the PUT, the DELETE and the GET of the scenario.
HttpContract ==
    /\ resp'.kind = "NotFound" => resp'.code = 404
    /\ resp'.kind = "ValidationError" => resp'.code = 422
    /\ resp'.kind = "StorageFailure" => resp'.code = 500
    /\ resp'.code \in {200, 201} => resp'.kind = "ok"
    /\ (resp'.op = "create" /\ ValidCreateInput(resp'.input)
          /\ resp'.kind # "StorageFailure") =>
          /\ resp'.code = 201
          /\ "priority" \in resp'.input.given =>
                resp'.data[1].priority = resp'.input.priority
    /\ (resp'.op = "update" /\ resp'.id \in IdsOf(store)
          /\ resp'.input = Input({"status"}, <<>>, "", "COMPLETED")
          /\ resp'.kind # "StorageFailure") =>
          /\ resp'.code = 200
          /\ resp'.data[1].status = "COMPLETED"
          /\ resp'.data[1].id = resp'.id
    /\ (resp'.op = "delete" /\ resp'.id \in IdsOf(store)
          /\ resp'.kind # "StorageFailure") =>
          resp'.code = 200
    /\ (resp'.op = "get" /\ resp'.id \in deleted
          /\ resp'.kind # "StorageFailure") =>
          resp'.code = 404

IndexOf(s, id) == CHOOSE i \in 1..Len(s) : s[i].id = id

\* b holds tasks of s, each once, in the order they have in s.
SubsequenceOf(b, s) ==
    /\ Range(b) \subseteq Range(s)
    /\ \A i \in 1..Len(b) : \A j \in 1..Len(b) :
          i < j => IndexOf(s, b[i].id) < IndexOf(s, b[j].id)

\* C23: whenever the boards are shown they are pairwise disjoint, together
\* hold every task of the collection (all statuses are of the enum), and
\* each keeps the relative order of the collection; a task that has just
\* been created is the last one of the Upcoming board.
C23_BoardsPartition ==
    /\ [](BoardsShown =>
            /\ IdsOf(upcomingTasks) \cap IdsOf(inProgressTasks) = {}
            /\ IdsOf(upcomingTasks) \cap IdsOf(completedTasks) = {}
            /\ IdsOf(inProgressTasks) \cap IdsOf(completedTasks) = {}
            /\ IdsOf(upcomingTasks) \cup IdsOf(inProgressTasks)
                  \cup IdsOf(completedTasks) = IdsOf(tasks)
            /\ Len(upcomingTasks) + Len(inProgressTasks)
                  + Len(completedTasks) = Len(tasks)
            /\ SubsequenceOf(upcomingTasks, tasks)
            /\ SubsequenceOf(inProgressTasks, tasks)
            /\ SubsequenceOf(completedTasks, tasks))
    /\ [][last'.op = "createOk" =>
            /\ upcomingTasks' # <<>>
            /\ upcomingTasks'[Len(upcomingTasks')].id = last'.id
            /\ Len(upcomingTasks') = Len(upcomingTasks) + 1]_vars

\* C23 witness: a task was created next to a loaded task of another board
\* and an earlier created one.
C23_Witness ==
    /\ last.op = "createOk"
    /\ Len(upcomingTasks) = 2
    /\ Len(inProgressTasks) + Len(completedTasks) = 1

\* C24 (as claimed): when the delete of A fails with a failure that is rolled
\* back and nothing else changed the collection since the initial load (A's
\* delete is the only request issued so far), the collection after the
\* rollback is the one before the confirmation, element for element: the
\* initial list, which holds the task of id i at position i.
C24_RollbackRoundTrip ==
    [][(/\ last'.op = "deleteFail"
        /\ ~last'.early
        /\ nDeletes = 1 /\ nPosts = 0 /\ nUpdates = 0) =>
          \E task \in BagToSet(deleteReqs) :
             /\ task.id = last'.id
             /\ Range(tasks') = Range(tasks) \cup {task}
             /\ Len(tasks') = Len(tasks) + 1
             /\ \A i \in 1..Len(tasks') : tasks'[i].id = i]_vars

C26_DeletingSetExact ==
    /\ deletingTasks = {task.id : task \in BagToSet(deleteReqs)}
    /\ deletingTasks \cap IdsOf(tasks) = {}
    /\ \A i \in 1..Len(tasks) : \A j \in 1..Len(tasks) :
          tasks[i].id = tasks[j].id => i = j

\* C26 witness: two deletes are unsettled while the collection holds a task.
C26_Witness ==
    /\ Cardinality(deletingTasks) = 2
    /\ BagCardinality(deleteReqs) = 2
    /\ tasks # <<>>

\* C27: the delete dialog is shown exactly when a delete target is selected,
\* and opening the dialog for a task selects that task and starts with no
\* delete error, whatever error an earlier delete left behind.
C27_DialogAndTarget ==
    /\ [](showDeleteModal <=> taskToDelete # NoTask)
    /\ [][last'.op = "openDelete" =>
            /\ showDeleteModal'
            /\ taskToDelete'.id = last'.id
            /\ deleteError' = Null]_vars

\* C27 witness: the dialog was opened again for the only task there is,
\* after its delete had failed and had been rolled back.
C27_Witness ==
    /\ last.op = "openDelete"
    /\ showDeleteModal
    /\ issued = {1}
    /\ nDeletes = 1
    /\ deleteReqs = EmptyBag
    /\ taskToDelete.id = 1

C29_DetailShowsRoute ==
    /\ (~detailIsLoading /\ detailError = Null /\ detailTask # NoDetail) =>
          detailTask.id = routeTaskId
    /\ BagIn(routeTaskId, fetches) => detailIsLoading

=============================================================================
